---------------------------- MODULE Spec2Model ----------------------------
(***************************************************************************)
(* A model of the TextSimplifier component                                 *)
(* (src/Infocraphic/src/ui/TextSimplifier.jsx): its React state, the       *)
(* generate handler, the add-element handler with its draw calls, and the  *)
(* layout / typography arithmetic the handler computes.                    *)
(*                                                                         *)
(* Numbers.  The source computes in IEEE doubles.  The model computes in   *)
(* exact rationals <<n, d>> (d > 0, lowest terms); 0.05 is 1/20, 0.6 is    *)
(* 3/5 and so on.  Math.floor is the exact floor.  The comparison          *)
(* currentRatio > targetRatio is exact in doubles as well for the sizes    *)
(* used here, since 1080/1920 = 0.5625 is a double.                        *)
(*                                                                         *)
(* Text.  A string is a sequence of one-character strings, so that         *)
(* .length, split, join and trim are computed, not assumed.                *)
(***************************************************************************)
EXTENDS Integers, Sequences, FiniteSets, TLC

VARIABLES
    inputText,        \* useState('')     line 5
    infographicData,  \* useState(null)   line 6
    isLoading,        \* useState(false)  line 7
    error,            \* useState('')     line 8
    env,              \* what the component is given: the credential and the sandboxProxy prop
    gen,              \* the running or last handleGenerateInfographic, with its history
    add,              \* the running or last addElementToCanvas, with its history
    call              \* the function application under examination (pure-function specifications)

vars == <<inputText, infographicData, isLoading, error, env, gen, add, call>>

---------------------------------------------------------------------------
(* Bounds of the model *)

\* canvas sizes are 540 * 2^k wide and 480 * 2^k high, k in 0..MaxDoublings
MaxDoublings == 7
\* longest text given to the word wrap
MaxTextLen == 5
\* largest maxCharsPerLine given to the word wrap
MaxWrapWidth == 4
\* largest text length, width and font size given to calculateAdaptiveFontSize
MaxFontArg == 6
\* longest single statistic string, and most statistics in one array
MaxStatLen == 3
MaxStats == 3
\* longest flowchart array
MaxNodes == 6
\* most words, and longest word, of the texts given to the text blocks
MaxWords == 6
MaxWordLen == 24

---------------------------------------------------------------------------
(* Exact rational arithmetic *)

Abs(n) == IF n < 0 THEN -n ELSE n

RECURSIVE GCD(_, _)
GCD(a, b) == IF b = 0 THEN a ELSE GCD(b, a % b)

\* n/d in lowest terms with a positive denominator (d # 0)
Rat(n, d) ==
    LET g == GCD(Abs(n), Abs(d))
        s == IF d < 0 THEN -1 ELSE 1
    IN  <<(s * n) \div g, (s * d) \div g>>

Num(n) == <<n, 1>>
RAdd(a, b) == Rat(a[1] * b[2] + b[1] * a[2], a[2] * b[2])
RSub(a, b) == Rat(a[1] * b[2] - b[1] * a[2], a[2] * b[2])
\* cross-reduced first, so that the products stay small
RMul(a, b) ==
    LET p == Rat(a[1], b[2])
        q == Rat(b[1], a[2])
    IN  Rat(p[1] * q[1], p[2] * q[2])
RDiv(a, b) == RMul(a, Rat(b[2], b[1]))
RLt(a, b) == a[1] * b[2] < b[1] * a[2]
RLe(a, b) == a[1] * b[2] <= b[1] * a[2]
RMin(a, b) == IF RLe(a, b) THEN a ELSE b
RFloor(a) == a[1] \div a[2]
RSum3(a, b, c) == RAdd(RAdd(a, b), c)

---------------------------------------------------------------------------
(* Strings as sequences of characters *)

SP == " "
NL == "\n"
\* the bullet U+2022 the statistics are prefixed with
BULLET == "*"

IsSpace(c) == c \in {SP, NL}

\* the least i in lo..Len(s) with P(s[i]), or Len(s) + 1
RECURSIVE FirstSpace(_, _)
FirstSpace(s, i) ==
    IF i > Len(s) THEN Len(s) + 1
    ELSE IF IsSpace(s[i]) THEN i ELSE FirstSpace(s, i + 1)

RECURSIVE FirstNonSpace(_, _)
FirstNonSpace(s, i) ==
    IF i > Len(s) THEN Len(s) + 1
    ELSE IF ~IsSpace(s[i]) THEN i ELSE FirstNonSpace(s, i + 1)

\* String.prototype.split(/\s+/): the pieces between maximal whitespace runs;
\* a leading or trailing run leaves an empty piece, and ''.split gives ['']
RECURSIVE splitWhitespace(_)
splitWhitespace(s) ==
    LET i == FirstSpace(s, 1)
    IN  IF i > Len(s) THEN <<s>>
        ELSE LET j == FirstNonSpace(s, i)
             IN  <<SubSeq(s, 1, i - 1)>> \o splitWhitespace(SubSeq(s, j, Len(s)))

\* whether sep occurs in s at position i
OccursAt(s, sep, i) ==
    /\ i + Len(sep) - 1 <= Len(s)
    /\ SubSeq(s, i, i + Len(sep) - 1) = sep

RECURSIVE FirstOccurrence(_, _, _)
FirstOccurrence(s, sep, i) ==
    IF i + Len(sep) - 1 > Len(s) THEN 0
    ELSE IF OccursAt(s, sep, i) THEN i ELSE FirstOccurrence(s, sep, i + 1)

\* String.prototype.split(sep) for a non-empty string sep
RECURSIVE splitOn(_, _)
splitOn(s, sep) ==
    LET i == FirstOccurrence(s, sep, 1)
    IN  IF i = 0 THEN <<s>>
        ELSE <<SubSeq(s, 1, i - 1)>> \o splitOn(SubSeq(s, i + Len(sep), Len(s)), sep)

\* Array.prototype.join(sep)
RECURSIVE join(_, _)
join(parts, sep) ==
    IF parts = <<>> THEN <<>>
    ELSE IF Len(parts) = 1 THEN parts[1]
    ELSE parts[1] \o sep \o join(Tail(parts), sep)

RECURSIVE LastNonSpace(_, _)
LastNonSpace(s, i) ==
    IF i < 1 THEN 0
    ELSE IF ~IsSpace(s[i]) THEN i ELSE LastNonSpace(s, i - 1)

\* String.prototype.trim
trim(s) == SubSeq(s, FirstNonSpace(s, 1), LastNonSpace(s, Len(s)))

\* all strings over alphabet of length at most n
StringsUpTo(alphabet, n) == UNION {[1..k -> alphabet] : k \in 0..n}

---------------------------------------------------------------------------
(* getCanvasDimensions, lines 10-49 *)

\* What sandboxProxy.getCanvasDimensions?.() can do: the method is absent
\* (undefined), the call rejects, or it resolves to an object whose width
\* and height are numbers; 0 stands for a missing or falsy field.
RECURSIVE Pow2(_)
Pow2(k) == IF k = 0 THEN 1 ELSE 2 * Pow2(k - 1)

ProbeWidths == {540 * Pow2(k) : k \in 0..MaxDoublings}
ProbeHeights == {480 * Pow2(k) : k \in 0..MaxDoublings}

ProbeSizes == {[kind |-> "value", width |-> w, height |-> h] :
                  w \in ProbeWidths, h \in ProbeHeights}
ProbeFailures ==
    {[kind |-> "absent", width |-> 0, height |-> 0],
     [kind |-> "throws", width |-> 0, height |-> 0],
     [kind |-> "value", width |-> 0, height |-> 1920],
     [kind |-> "value", width |-> 1080, height |-> 0]}

DefaultDimensions == [width |-> 1080, height |-> 1920, scaleFactor |-> Num(1)]

\* the width branch dividing by the reference height
scaleFactorWrongReference(dimensions) ==
    IF dimensions.width * 1920 > 1080 * dimensions.height
    THEN Rat(dimensions.height, 1920)
    ELSE Rat(dimensions.width, 1920)

\* lines 16-26: targetRatio = 1080/1920, currentRatio = width/height
scaleFactorOf(dimensions) ==
    IF dimensions.width * 1920 > 1080 * dimensions.height
    THEN Rat(dimensions.height, 1920)
    ELSE Rat(dimensions.width, 1080)

\* the function without the width / height test of line 14
getCanvasDimensionsUnchecked(probe) ==
    IF probe.kind = "value"
    THEN [width |-> probe.width, height |-> probe.height,
          scaleFactor |-> scaleFactorOf(probe)]
    ELSE DefaultDimensions

getCanvasDimensions(probe) ==
    IF probe.kind = "value" /\ probe.width # 0 /\ probe.height # 0
    THEN [width |-> probe.width, height |-> probe.height,
          scaleFactor |-> scaleFactorOf(probe)]
    ELSE DefaultDimensions

---------------------------------------------------------------------------
(* Layout areas and font sizes of addElementToCanvas, lines 154-205 and   *)
(* 453-455.  cm is the record getCanvasDimensions returned; layout(cm) is  *)
(* the record of the constants the handler computes from it, each under    *)
(* its source name.                                                        *)

minSide(cm) == IF cm.width <= cm.height THEN cm.width ELSE cm.height

Times(k, r) == RMul(Num(k), r)

nodeCount == 5

layout(cm) ==
    LET \* line 155
        margin == RMul(RMul(Num(minSide(cm)), Rat(1, 20)), cm.scaleFactor)
        halfWidth == Rat(cm.width, 2)
        halfHeight == Rat(cm.height, 2)
        \* lines 160-165
        titleArea ==
            [x |-> margin,
             y |-> margin,
             width |-> RSub(Num(cm.width), Times(2, margin)),
             height |-> Rat(cm.height, 10)]
        \* lines 167-172
        overviewArea ==
            [x |-> margin,
             y |-> RSum3(titleArea.y, titleArea.height, margin),
             width |-> RSub(halfWidth, Times(2, margin)),
             height |-> RSub(halfHeight, Times(2, margin))]
        \* lines 174-179
        statsArea ==
            [x |-> margin,
             y |-> RSum3(overviewArea.y, overviewArea.height, margin),
             width |-> RSub(halfWidth, Times(2, margin)),
             height |-> RSub(Num(cm.height),
                             RSum3(overviewArea.y, overviewArea.height,
                                   Times(2, margin)))]
        \* lines 181-186
        flowchartArea ==
            [x |-> RAdd(halfWidth, margin),
             y |-> RSum3(titleArea.y, titleArea.height, margin),
             width |-> RSub(halfWidth, Times(2, margin)),
             height |-> RSub(Num(cm.height),
                             RAdd(titleArea.height, Times(3, margin)))]
        \* lines 453-455 (the values the node boxes are drawn with)
        nodeHeight ==
            RDiv(RSub(flowchartArea.height, Times(6, margin)), Num(nodeCount))
        \* line 200
        baseFontSize == RMul(RMul(Num(minSide(cm)), Rat(1, 50)), cm.scaleFactor)
    IN  [margin |-> margin,
         titleArea |-> titleArea,
         overviewArea |-> overviewArea,
         statsArea |-> statsArea,
         flowchartArea |-> flowchartArea,
         nodeHeight |-> nodeHeight,
         nodeSpacing |-> RMul(nodeHeight, Rat(1, 10)),
         baseFontSize |-> baseFontSize,
         \* lines 201-205 and 210
         titleFontSize |-> RMul(baseFontSize, Rat(21, 10)),
         overviewFontSize |-> RMul(baseFontSize, Rat(11, 10)),
         statsFontSize |-> RMul(baseFontSize, Rat(14, 10)),
         nodeTitleFontSize |-> RMul(baseFontSize, Rat(9, 10)),
         nodeDescFontSize |-> RMul(baseFontSize, Rat(74, 100)),
         sectionHeaderFontSize |-> RMul(baseFontSize, Num(2))]

\* lines 465-466 and 469-475: the rectangle of node i (0-based), L = layout(cm)
nodeX(L) == RAdd(L.flowchartArea.x, L.margin)
nodeY(L, i) ==
    RSum3(L.flowchartArea.y, Times(3, L.margin),
          Times(i, RAdd(L.nodeHeight, L.nodeSpacing)))
nodeRect(L, i) ==
    [x |-> nodeX(L),
     y |-> nodeY(L, i),
     width |-> RSub(L.flowchartArea.width, Times(2, L.margin)),
     height |-> L.nodeHeight]

---------------------------------------------------------------------------
(* calculateAdaptiveFontSize, lines 51-64 *)

\* a / n as JavaScript divides: a zero divisor gives an infinity or NaN
\* (written with a zero denominator)
NegInfinity == <<-1, 0>>
PosInfinity == <<1, 0>>
NaN == <<0, 0>>
IsFinite(v) == v[2] # 0

jsDivide(a, n) ==
    IF n # 0 THEN RDiv(a, Num(n))
    ELSE IF RLt(a, Num(0)) THEN NegInfinity
    ELSE IF RLt(Num(0), a) THEN PosInfinity ELSE NaN

\* Math.floor(q / 0.6)
floorOver06(q) == IF IsFinite(q) THEN Num(RFloor(RDiv(q, Rat(3, 5)))) ELSE q

\* Math.max(a, b) with b finite
mathMax(a, b) ==
    IF a = NaN THEN NaN
    ELSE IF a = PosInfinity THEN a
    ELSE IF a = NegInfinity THEN b
    ELSE IF RLt(a, b) THEN b ELSE a

\* line 58: estimatedWidth > maxWidth
shrinks(text, maxWidth, base) ==
    RLt(maxWidth, RMul(Num(Len(text)), RMul(base, Rat(3, 5))))

\* the function without the Math.max of line 60
calculateAdaptiveFontSizeUnclamped(text, maxWidth, base, minFontSize) ==
    IF shrinks(text, maxWidth, base)
    THEN floorOver06(jsDivide(maxWidth, Len(text)))
    ELSE base

calculateAdaptiveFontSize(text, maxWidth, base, minFontSize) ==
    IF shrinks(text, maxWidth, base)
    THEN mathMax(floorOver06(jsDivide(maxWidth, Len(text))), minFontSize)
    ELSE base

---------------------------------------------------------------------------
(* The greedy word wrap, lines 286-299 (overview), 373-385 (each          *)
(* statistic) and 498-510 (each node description): the same loop.         *)

\* the loop with the space between the words left out of the length test
RECURSIVE wrapFromUncountedSpace(_, _, _, _, _)
wrapFromUncountedSpace(words, i, currentLine, lines, maxCharsPerLine) ==
    IF i > Len(words)
    THEN IF currentLine # <<>> THEN Append(lines, currentLine) ELSE lines
    ELSE IF Len(currentLine) + Len(words[i]) <= maxCharsPerLine
         THEN wrapFromUncountedSpace(words, i + 1,
                       IF currentLine # <<>>
                       THEN currentLine \o <<SP>> \o words[i]
                       ELSE words[i],
                       lines, maxCharsPerLine)
         ELSE wrapFromUncountedSpace(words, i + 1, words[i],
                       IF currentLine # <<>> THEN Append(lines, currentLine)
                       ELSE lines,
                       maxCharsPerLine)

\* the loop without the push of the last line (lines 299, 385, 510)
RECURSIVE wrapFromNoLastPush(_, _, _, _, _)
wrapFromNoLastPush(words, i, currentLine, lines, maxCharsPerLine) ==
    IF i > Len(words)
    THEN lines
    ELSE IF Len(currentLine) + 1 + Len(words[i]) <= maxCharsPerLine
         THEN wrapFromNoLastPush(words, i + 1,
                       IF currentLine # <<>>
                       THEN currentLine \o <<SP>> \o words[i]
                       ELSE words[i],
                       lines, maxCharsPerLine)
         ELSE wrapFromNoLastPush(words, i + 1, words[i],
                       IF currentLine # <<>> THEN Append(lines, currentLine)
                       ELSE lines,
                       maxCharsPerLine)

\* the loop body for word words[i], with the lines pushed so far
RECURSIVE wrapFrom(_, _, _, _, _)
wrapFrom(words, i, currentLine, lines, maxCharsPerLine) ==
    IF i > Len(words)
    THEN IF currentLine # <<>> THEN Append(lines, currentLine) ELSE lines
    ELSE IF Len(currentLine) + 1 + Len(words[i]) <= maxCharsPerLine
         THEN wrapFrom(words, i + 1,
                       IF currentLine # <<>>
                       THEN currentLine \o <<SP>> \o words[i]
                       ELSE words[i],
                       lines, maxCharsPerLine)
         ELSE wrapFrom(words, i + 1, words[i],
                       IF currentLine # <<>> THEN Append(lines, currentLine)
                       ELSE lines,
                       maxCharsPerLine)

wrapLines(text, maxCharsPerLine) ==
    wrapFrom(splitWhitespace(text), 1, <<>>, <<>>, maxCharsPerLine)

\* lines.join('\n')
wrapText(text, maxCharsPerLine) == join(wrapLines(text, maxCharsPerLine), <<NL>>)

---------------------------------------------------------------------------
(* The draw calls of addElementToCanvas, lines 207-529.                   *)
(*                                                                         *)
(* A draw call is the argument record of createRectangleWithProps or       *)
(* createTextWithProps; part and node say which call of the handler it is  *)
(* (node is -1 outside the node loop), and the properties a call does not  *)
(* pass are None.  For a content and the canvas dimensions, the handler's  *)
(* calls are a fixed sequence: the plan.  The handler issues the plan's    *)
(* calls one at a time, awaiting each.                                     *)

None == <<>>

rectCall(part, node, x, y, width, height) ==
    [prim |-> "createRectangleWithProps", part |-> part, node |-> node,
     x |-> x, y |-> y, width |-> width, height |-> height,
     text |-> None, fontSize |-> None, lineHeight |-> None]

textCall(part, node, text, x, y, fontSize, width, lineHeight) ==
    [prim |-> "createTextWithProps", part |-> part, node |-> node,
     x |-> x, y |-> y, width |-> width, height |-> None,
     text |-> text, fontSize |-> fontSize, lineHeight |-> lineHeight]

areaCall(part, area) == rectCall(part, -1, area.x, area.y, area.width, area.height)

centerX(area) == RAdd(area.x, RDiv(area.width, Num(2)))

OverviewHeader == <<"O", "v", "e", "r", "v", "i", "e", "w">>
StatisticsHeader == <<"S", "t", "a", "t", "i", "s", "t", "i", "c", "s">>
FlowchartHeader == <<"F", "l", "o", "w", "c", "h", "a", "r", "t">>

\* the section header text, lines 261-272, 343-354, 430-441
headerCall(L, area, text) ==
    textCall("header", -1, text, centerX(area),
             RAdd(area.y, RMul(L.margin, Rat(14, 10))),
             L.sectionHeaderFontSize, area.width, None)

\* the header underline; lines 275-281 use margin, 357-363 and 444-450 margin * 1.2
underlineCall(L, area, marginFactor) ==
    rectCall("underline", -1,
             RAdd(area.x, L.margin),
             RAdd(RSum3(area.y, RMul(L.margin, marginFactor),
                        L.sectionHeaderFontSize), Num(5)),
             RSub(area.width, Times(2, L.margin)),
             Num(2))

(* case 'title', lines 208-238 *)
titleMaxWidth(L) == RSub(L.titleArea.width, Times(4, L.margin))

adaptiveTitleFontSize(L, content) ==
    calculateAdaptiveFontSize(content, titleMaxWidth(L), L.titleFontSize,
                              L.sectionHeaderFontSize)

titlePlan(L, content) ==
    <<areaCall("background", L.titleArea),
      textCall("body", -1, content, centerX(L.titleArea),
               RAdd(L.titleArea.y, RMul(L.titleArea.height, Rat(5, 8))),
               adaptiveTitleFontSize(L, content), titleMaxWidth(L), None)>>

(* case 'overview', lines 240-315 *)
\* lines 242-249
overviewText(content) ==
    IF content.kind \in {"array", "object"}
    THEN join(content.items, <<NL, NL>>)
    ELSE content.text

\* line 284
overviewMaxChars(L) ==
    RFloor(RDiv(RMul(Rat(8, 10), L.overviewArea.width),
                RMul(L.overviewFontSize, Rat(3, 5))))

overviewPlan(L, content) ==
    <<areaCall("background", L.overviewArea),
      headerCall(L, L.overviewArea, OverviewHeader),
      underlineCall(L, L.overviewArea, Num(1)),
      textCall("body", -1,
               wrapText(overviewText(content), overviewMaxChars(L)),
               centerX(L.overviewArea),
               RAdd(L.overviewArea.y, RMul(L.overviewArea.height, Rat(22, 100))),
               L.overviewFontSize, L.overviewArea.width,
               RMul(L.overviewFontSize, Rat(28, 10)))>>

(* case 'statistic', lines 317-409 *)
bulleted(stat) == <<BULLET, SP>> \o stat

\* lines 319-326; a non-array content that is falsy ('') leaves statsText ''
statsText(content) ==
    IF content.kind \in {"array", "object"}
    THEN join([i \in 1..Len(content.items) |-> bulleted(content.items[i])],
              <<NL, NL, NL>>)
    ELSE IF content.text # <<>> THEN bulleted(content.text) ELSE <<>>

\* line 370
statsArray(content) == splitOn(statsText(content), <<NL, NL, NL>>)

\* line 394
statsCount(content) == Len(statsArray(content))

\* line 366
maxStatsCharsPerLine(L) ==
    RFloor(RDiv(RMul(Rat(92, 100), L.statsArea.width),
                RMul(L.statsFontSize, Rat(3, 5))))

\* lines 372-391
wrappedStatsText(L, content) ==
    LET stats == statsArray(content)
        maxChars == maxStatsCharsPerLine(L)
    IN  join([i \in 1..Len(stats) |-> wrapText(stats[i], maxChars)], <<NL, NL>>)

\* lines 395-396
adjustedStatsFontSize(L, content) ==
    IF statsCount(content) = 3 THEN RMul(L.statsFontSize, Rat(9, 10))
    ELSE L.statsFontSize
verticalOffset(content) ==
    IF statsCount(content) = 3 THEN Rat(3, 10) ELSE Rat(4, 10)

statisticPlan(L, content) ==
    IF trim(statsText(content)) = <<>> THEN <<>>    \* lines 328-331: return
    ELSE
    <<areaCall("background", L.statsArea),
      headerCall(L, L.statsArea, StatisticsHeader),
      underlineCall(L, L.statsArea, Rat(12, 10)),
      textCall("body", -1, wrappedStatsText(L, content),
               centerX(L.statsArea),
               RAdd(L.statsArea.y,
                    RMul(RMul(L.statsArea.height, verticalOffset(content)),
                         Rat(91, 100))),
               adjustedStatsFontSize(L, content), L.statsArea.width,
               RMul(adjustedStatsFontSize(L, content), Num(3)))>>

(* case 'flowchart', lines 411-528 *)
\* A node is null / undefined (NoNode) or an object; a title or description
\* that is missing or '' is <<>>, which is what !node.title tests.
NoNode == [kind |-> "null", title |-> <<>>, description |-> <<>>]

\* content[i] for the 0-based index i of the array content
nodeAt(content, i) ==
    IF i + 1 <= Len(content.items) THEN content.items[i + 1] ELSE NoNode

\* line 460
skipped(node) == node.kind = "null" \/ node.title = <<>>

\* line 495
nodeDescMaxChars(L) ==
    RFloor(RDiv(RSub(L.flowchartArea.width, Times(3, L.margin)),
                RMul(L.nodeDescFontSize, Rat(3, 5))))

nodeCenterX(L) ==
    RAdd(nodeX(L),
         RDiv(RSub(L.flowchartArea.width, Times(2, L.margin)), Num(2)))

\* the region the calls of node i are drawn in: the loop index, line 466
nodeRegion(i) == i

\* lines 469-475
nodeBoxCall(L, i) ==
    LET r == nodeRect(L, nodeRegion(i))
    IN  rectCall("nodeBox", i, r.x, r.y, r.width, r.height)

\* lines 478-489
nodeTitleCall(L, i, node) ==
    textCall("nodeTitle", i, node.title, nodeCenterX(L),
             RAdd(nodeY(L, nodeRegion(i)), RMul(L.nodeHeight, Rat(2, 10))),
             L.nodeTitleFontSize,
             RSub(L.flowchartArea.width, Times(4, L.margin)),
             RMul(L.nodeTitleFontSize, Rat(12, 10)))

\* lines 492-526
nodeDescCall(L, i, node) ==
    textCall("nodeDesc", i, wrapText(node.description, nodeDescMaxChars(L)),
             nodeCenterX(L),
             RAdd(nodeY(L, nodeRegion(i)), RMul(L.nodeHeight, Rat(5, 10))),
             L.nodeDescFontSize,
             RSub(L.flowchartArea.width, Times(3, L.margin)),
             RMul(L.nodeDescFontSize, Rat(15, 10)))

\* one iteration of the loop of lines 458-527
nodeCalls(L, content, i) ==
    LET node == nodeAt(content, i)
    IN  IF skipped(node) THEN <<>>
        ELSE <<nodeBoxCall(L, i), nodeTitleCall(L, i, node)>>
             \o (IF node.description # <<>> THEN <<nodeDescCall(L, i, node)>>
                 ELSE <<>>)

\* the loop leaving at the first skipped node (break for continue, line 462)
RECURSIVE nodeLoopBreak(_, _, _)
nodeLoopBreak(L, content, i) ==
    IF i < nodeCount /\ ~skipped(nodeAt(content, i))
    THEN nodeCalls(L, content, i) \o nodeLoopBreak(L, content, i + 1)
    ELSE <<>>

RECURSIVE nodeLoop(_, _, _)
nodeLoop(L, content, i) ==
    IF i < nodeCount THEN nodeCalls(L, content, i) \o nodeLoop(L, content, i + 1)
    ELSE <<>>

flowchartPlan(L, content) ==
    <<areaCall("background", L.flowchartArea),
      headerCall(L, L.flowchartArea, FlowchartHeader),
      underlineCall(L, L.flowchartArea, Rat(12, 10))>>
    \o nodeLoop(L, content, 0)

\* the switch of line 207
planFor(type, L, content) ==
    CASE type = "title" -> titlePlan(L, content.text)
      [] type = "overview" -> overviewPlan(L, content)
      [] type = "statistic" -> statisticPlan(L, content)
      [] type = "flowchart" -> flowchartPlan(L, content)

\* lines 154-529: the layout is computed once, then the case is run
drawPlan(type, cm, content) ==
    CHOOSE plan \in {planFor(type, L, content) : L \in {layout(cm)}} : TRUE

---------------------------------------------------------------------------
(* The component: state, inputs and handlers *)

\* infographicData is null or the parsed object; an optional field that is
\* absent is Undefined
Null == [kind |-> "null"]
Undefined == [kind |-> "undefined", items |-> <<>>]

\* !value for a field of the parsed object: undefined, null and '' are
\* falsy, every array and object is truthy
falsy(value) ==
    \/ value.kind \in {"undefined", "null"}
    \/ value.kind = "string" /\ value.text = <<>>

TitleT == <<"T">>
TextAB == <<"a", SP, "b">>

Node(title, description) ==
    [kind |-> "object", title |-> title, description |-> description]

\* what JSON.parse of the cleaned response content can give (line 113)
DataTitleOverview ==
    [kind |-> "object", title |-> TitleT, overview |-> [kind |-> "string", text |-> TextAB],
     statistics |-> Undefined, flowchart |-> Undefined]
DataFull ==
    [kind |-> "object", title |-> TitleT, overview |-> [kind |-> "string", text |-> TextAB],
     statistics |-> [kind |-> "array", items |-> <<<<"a">>, <<"b">>, <<"c">>>>],
     flowchart |-> [kind |-> "array",
                    items |-> <<Node(<<"n">>, <<"d">>), Node(<<"n">>, <<>>),
                                Node(<<>>, <<"d">>), NoNode,
                                Node(<<"n">>, <<"d">>)>>]]
DataNoTitle == [DataTitleOverview EXCEPT !.title = <<>>]
DataNoOverview ==
    [DataFull EXCEPT !.overview = [kind |-> "string", text |-> <<>>]]

ParsedData == {DataTitleOverview, DataFull, DataNoTitle, DataNoOverview}

\* what the textarea can hold: nothing, blanks, text
InputTexts == {<<>>, <<SP>>, <<"x">>}

\* the probe results an add-element handler is given
HandlerProbes ==
    ProbeFailures \cup {p \in ProbeSizes : p.width <= 1080 /\ p.height <= 1920}

NoCall == [fn |-> "none"]

\* The generate handler: pc is where it stands (idle when none runs).  The
\* other fields are its history: before is infographicData as it was when
\* the handler was invoked, requests counts the fetch calls it has made, and
\* outcome says how the last one ended.
GenIdle == [pc |-> "idle", before |-> Null, requests |-> 0, outcome |-> "none"]

\* The add-element handler: its arguments, its position, the dimensions and
\* draw plan it computed, and its history: probe is what the canvas probe
\* did, calls are the draw calls issued, inflight and completed their state,
\* and previous is the dimensions the handler before this one computed.
NoProbe == [kind |-> "none", width |-> 0, height |-> 0]
AddIdle ==
    [pc |-> "idle", type |-> "none", content |-> Undefined, probe |-> NoProbe,
     previous |-> DefaultDimensions, cm |-> DefaultDimensions,
     plan |-> <<>>, calls |-> <<>>, inflight |-> {}, completed |-> 0]

Init ==
    /\ inputText = <<>>
    /\ infographicData = Null
    /\ isLoading = FALSE
    /\ error = ""
    /\ env \in [apiKey : BOOLEAN, sandboxProxy : BOOLEAN]
    /\ gen = GenIdle
    /\ add = AddIdle
    /\ call = NoCall

\* line 595: onChange
SetInputText ==
    /\ \E t \in InputTexts : t # inputText /\ inputText' = t
    /\ UNCHANGED <<infographicData, isLoading, error, env, gen, add, call>>

(* handleGenerateInfographic, lines 66-142 *)

\* the check of title alone
missingRequiredTitleOnly(parsedData) == parsedData.title = <<>>

\* line 126: !parsedData.title || !parsedData.overview
missingRequired(parsedData) ==
    parsedData.title = <<>> \/ falsy(parsedData.overview)

\* the click without setInfographicData(null), line 71
GenerateClickKeepsContent ==
    /\ ~isLoading
    /\ trim(inputText) # <<>>
    /\ gen.pc = "idle"
    /\ IF env.apiKey
       THEN /\ isLoading' = TRUE
            /\ error' = ""
            /\ gen' = [pc |-> "fetch", before |-> infographicData,
                       requests |-> 1, outcome |-> "none"]
       ELSE /\ isLoading' = FALSE
            /\ error' = "Deepseek API key not found"
            /\ gen' = [pc |-> "idle", before |-> infographicData,
                       requests |-> 0, outcome |-> "failed"]
    /\ UNCHANGED <<inputText, infographicData, env, add, call>>

\* the click without setError(''), line 70
GenerateClickKeepsError ==
    /\ ~isLoading
    /\ trim(inputText) # <<>>
    /\ gen.pc = "idle"
    /\ infographicData' = Null
    /\ IF env.apiKey
       THEN /\ isLoading' = TRUE
            /\ error' = error
            /\ gen' = [pc |-> "fetch", before |-> infographicData,
                       requests |-> 1, outcome |-> "none"]
       ELSE /\ isLoading' = FALSE
            /\ error' = "Deepseek API key not found"
            /\ gen' = [pc |-> "idle", before |-> infographicData,
                       requests |-> 0, outcome |-> "failed"]
    /\ UNCHANGED <<inputText, env, add, call>>

\* The click of the generate button (line 620; line 621 disables it while
\* loading or blank), up to the first await: lines 67-98.  Without the
\* credential the throw of line 76 is caught and the handler is over.
GenerateClick ==
    /\ ~isLoading
    /\ trim(inputText) # <<>>
    /\ gen.pc = "idle"
    /\ infographicData' = Null
    /\ IF env.apiKey
       THEN /\ isLoading' = TRUE
            /\ error' = ""
            /\ gen' = [pc |-> "fetch", before |-> infographicData,
                       requests |-> 1, outcome |-> "none"]
       ELSE /\ isLoading' = FALSE
            /\ error' = "Deepseek API key not found"
            /\ gen' = [pc |-> "idle", before |-> infographicData,
                       requests |-> 0, outcome |-> "failed"]
    /\ UNCHANGED <<inputText, env, add, call>>

\* the catch without the finally of lines 139-141
generateFailsStillLoading(message) ==
    /\ error' = message
    /\ gen' = [gen EXCEPT !.pc = "idle", !.outcome = "failed"]
    /\ UNCHANGED <<inputText, infographicData, isLoading, env, add, call>>

\* the catch and finally of lines 136-141
generateFails(message) ==
    /\ error' = message
    /\ isLoading' = FALSE
    /\ gen' = [gen EXCEPT !.pc = "idle", !.outcome = "failed"]
    /\ UNCHANGED <<inputText, infographicData, env, add, call>>

\* the fetch issued again after a failure
FetchSettlesRetries ==
    /\ gen.pc = "fetch"
    /\ \/ /\ gen.requests < 2
          /\ gen' = [gen EXCEPT !.requests = @ + 1]
          /\ UNCHANGED <<inputText, infographicData, isLoading, error, env, add, call>>
       \/ generateFails("Failed to generate infographic data")
       \/ /\ gen' = [gen EXCEPT !.pc = "json"]
          /\ UNCHANGED <<inputText, infographicData, isLoading, error, env, add, call>>

\* fetch settles: lines 79-102
FetchSettles ==
    /\ gen.pc = "fetch"
    /\ \/ generateFails("Failed to fetch")
       \/ generateFails("Failed to generate infographic data")
       \/ /\ gen' = [gen EXCEPT !.pc = "json"]
          /\ UNCHANGED <<inputText, infographicData, isLoading, error, env, add, call>>

\* response.json() settles and the content is parsed: lines 104-141
JsonSettles ==
    /\ gen.pc = "json"
    /\ \/ generateFails("Unexpected end of JSON input")
       \/ generateFails("Failed to parse infographic data: Unexpected token")
       \/ \E parsedData \in ParsedData :
            IF missingRequired(parsedData)
            THEN generateFails(
                   "Failed to parse infographic data: Missing required fields in response")
            ELSE /\ infographicData' = parsedData
                 /\ isLoading' = FALSE
                 /\ gen' = [gen EXCEPT !.pc = "idle", !.outcome = "stored"]
                 /\ UNCHANGED <<inputText, error, env, add, call>>

(* addElementToCanvas, lines 144-534 *)

AddTypes == {"title", "overview", "statistic", "flowchart"}

\* lines 659, 725, 749: the buttons rendered, and the content each passes
offeredWhenever(type) == infographicData.kind # "null"

offered(type) ==
    /\ ~falsy(infographicData)
    /\ type = "statistic" => ~falsy(infographicData.statistics)
    /\ type = "flowchart" => ~falsy(infographicData.flowchart)

contentOf(type) ==
    CASE type = "title" -> [kind |-> "string", text |-> infographicData.title]
      [] type = "overview" -> infographicData.overview
      [] type = "statistic" -> infographicData.statistics
      [] type = "flowchart" -> infographicData.flowchart

addRunning == add.pc \in {"probe", "draw"}

\* A click on an add button, up to the first await (line 152 -> line 13).
\* One handler at a time: a handler reads only its arguments and its own
\* dimensions, and writes only error.
AddClick ==
    /\ ~addRunning
    /\ \E type \in AddTypes :
         /\ offered(type)
         /\ IF ~env.sandboxProxy
            THEN /\ error' = "Canvas not available"       \* lines 145-148
                 /\ UNCHANGED add
            ELSE /\ add' = [AddIdle EXCEPT !.pc = "probe", !.type = type,
                                            !.content = contentOf(type),
                                            !.previous = add.cm]
                 /\ UNCHANGED error
    /\ UNCHANGED <<inputText, infographicData, isLoading, env, gen, call>>

\* the calls from k on issued without awaiting any
issuedWithoutAwait(plan, k) == [j \in 1..(Len(plan) - k + 1) |-> k + j - 1]

\* The calls the handler issues when it resumes before call k of its plan:
\* it runs to the next await, which is call k itself.
issuedOnResume(plan, k) == IF k <= Len(plan) THEN <<k>> ELSE <<>>

\* The handler a, whose draw calls for its content and dimensions are
\* a.plan, resumes with `completed` calls behind it.
resume(a, completed) ==
    LET ks == issuedOnResume(a.plan, completed + 1)
    IN  [a EXCEPT !.completed = completed,
                  !.calls = a.calls \o [j \in 1..Len(ks) |-> a.plan[ks[j]]],
                  !.inflight = (a.inflight \ {completed}) \cup {ks[j] : j \in 1..Len(ks)},
                  !.pc = IF completed = Len(a.plan) THEN "done" ELSE "draw"]

\* the handler keeping the dimensions computed by the handler before it
withDimensionsCached(a, cm) ==
    [a EXCEPT !.cm = a.previous, !.plan = drawPlan(a.type, a.previous, a.content)]

\* the handler with the dimensions the probe gave
withDimensions(a, cm) ==
    [a EXCEPT !.cm = cm, !.plan = drawPlan(a.type, cm, a.content)]

\* a failing probe reported to the user and ending the handler
ProbeSettlesSurfacing ==
    /\ add.pc = "probe"
    /\ \E probe \in HandlerProbes :
         IF probe \in ProbeFailures
         THEN /\ add' = [add EXCEPT !.probe = probe, !.pc = "failed"]
              /\ error' = "Error adding element to canvas: no dimensions"
         ELSE /\ \E a \in {withDimensions([add EXCEPT !.probe = probe],
                                            getCanvasDimensions(probe))} :
                   add' = resume(a, 0)
              /\ UNCHANGED error
    /\ UNCHANGED <<inputText, infographicData, isLoading, env, gen, call>>

\* the probe settles (lines 13-48) and the handler runs to its first draw call
ProbeSettles ==
    /\ add.pc = "probe"
    /\ \E probe \in HandlerProbes :
         \E a \in {withDimensions([add EXCEPT !.probe = probe],
                                   getCanvasDimensions(probe))} :
            add' = resume(a, 0)
    /\ UNCHANGED <<inputText, infographicData, isLoading, error, env, gen, call>>

\* the awaited draw call resolves and the handler runs to its next one
DrawResolves ==
    /\ add.pc = "draw"
    /\ add' = resume(add, add.completed + 1)
    /\ UNCHANGED <<inputText, infographicData, isLoading, error, env, gen, call>>

\* the catch inside the sequence: the rejected call is dropped and the next issued
DrawRejectsGoesOn ==
    /\ add.pc = "draw"
    /\ add' = [resume(add, add.completed + 1) EXCEPT !.pc = "failed"]
    /\ error' = "Error adding element to canvas: rejected"
    /\ UNCHANGED <<inputText, infographicData, isLoading, env, gen, call>>

\* the awaited draw call rejects: the catch of lines 530-533
DrawRejects ==
    /\ add.pc = "draw"
    /\ add' = [add EXCEPT !.pc = "failed", !.inflight = {}]
    /\ error' = "Error adding element to canvas: rejected"
    /\ UNCHANGED <<inputText, infographicData, isLoading, env, gen, call>>

Next ==
    \/ SetInputText
    \/ GenerateClick
    \/ FetchSettles
    \/ JsonSettles
    \/ AddClick
    \/ ProbeSettles
    \/ DrawResolves
    \/ DrawRejects

Spec == Init /\ [][Next]_vars

\* The generate handler alone: the steps that read or write inputText,
\* isLoading and gen.  A pending fetch and a pending response.json()
\* settle: the promise the handler awaits is resolved or rejected by the
\* browser, and the handler's continuation is then run from the microtask
\* queue.
NextGenerate ==
    \/ SetInputText
    \/ GenerateClick
    \/ FetchSettles
    \/ JsonSettles

SpecGenerate ==
    Init /\ [][NextGenerate]_vars /\ WF_vars(FetchSettles) /\ WF_vars(JsonSettles)

---------------------------------------------------------------------------
(* Specifications of the pure computations.  The component stays as        *)
(* constructed; call records one application: its arguments and result.    *)

Constructed ==
    /\ inputText = <<>>
    /\ infographicData = Null
    /\ isLoading = FALSE
    /\ error = ""
    /\ env = [apiKey |-> TRUE, sandboxProxy |-> TRUE]
    /\ gen = GenIdle
    /\ add = AddIdle

ConstructedIdle == Constructed /\ call = NoCall

componentVars == <<inputText, infographicData, isLoading, error, env, gen, add>>

(* getCanvasDimensions and the layout computed from its result *)

ProbeCanvas ==
    /\ call.fn = "none"
    /\ \E probe \in ProbeSizes \cup ProbeFailures :
         call' = [fn |-> "getCanvasDimensions", probe |-> probe,
                  cm |-> getCanvasDimensions(probe)]
    /\ UNCHANGED componentVars

ComputeLayout ==
    /\ call.fn = "getCanvasDimensions"
    /\ call' = [fn |-> "layout", probe |-> call.probe, cm |-> call.cm,
                L |-> layout(call.cm)]
    /\ UNCHANGED componentVars

NextLayout == ProbeCanvas \/ ComputeLayout

SpecLayout == ConstructedIdle /\ [][NextLayout]_vars

\* rectangle geometry
right(r) == RAdd(r.x, r.width)
bottom(r) == RAdd(r.y, r.height)
Overlap(a, b) ==
    /\ RLt(a.x, right(b)) /\ RLt(b.x, right(a))
    /\ RLt(a.y, bottom(b)) /\ RLt(b.y, bottom(a))
InsideBox(r, x0, y0, x1, y1) ==
    /\ RLe(x0, r.x) /\ RLe(y0, r.y)
    /\ RLe(right(r), x1) /\ RLe(bottom(r), y1)
InsideCanvas(r, cm) == InsideBox(r, Num(0), Num(0), Num(cm.width), Num(cm.height))
InsideArea(r, area) == InsideBox(r, area.x, area.y, right(area), bottom(area))

\* C1: for every canvas size the probe returns, the title, overview,
\* statistics and flowchart regions are pairwise non-overlapping and each
\* lies inside [0,width] x [0,height].
RegionsDisjointInsideCanvas ==
    call.fn = "layout" =>
        LET rs == <<call.L.titleArea, call.L.overviewArea,
                    call.L.statsArea, call.L.flowchartArea>>
        IN  /\ \A i \in 1..4 : InsideCanvas(rs[i], call.cm)
            /\ \A i \in 1..4 : \A j \in 1..4 : i # j => ~Overlap(rs[i], rs[j])

\* C2: for every canvas size the 5 node rectangles drawn have equal height,
\* are pairwise non-overlapping, are stacked in index order and lie inside
\* the flowchart region and inside the canvas.
NodeRectsStackedInsideFlowchart ==
    call.fn = "layout" =>
        LET n(i) == nodeRect(call.L, i)
        IN  /\ \A i \in 0..4 : n(i).height = n(0).height
            /\ \A i \in 0..3 : RLe(bottom(n(i)), n(i + 1).y)
            /\ \A i \in 0..4 : \A j \in 0..4 : i # j => ~Overlap(n(i), n(j))
            /\ \A i \in 0..4 : InsideArea(n(i), call.L.flowchartArea)
            /\ \A i \in 0..4 : InsideCanvas(n(i), call.cm)

atReferenceRatio(probe) ==
    /\ probe.kind = "value" /\ probe.width > 0 /\ probe.height > 0
    /\ probe.width * 1920 = 1080 * probe.height

\* C3 as claimed: every probe result at the reference ratio 1080/1920, of
\* any size, gives scaleFactor = 1.
ScaleFactorOneAtReferenceRatio ==
    (call.fn = "getCanvasDimensions" /\ atReferenceRatio(call.probe))
        => call.cm.scaleFactor = Num(1)

\* C3 as amended: at the reference ratio scaleFactor is the size relative
\* to 1080 x 1920, width/1080 = height/1920, which is 1 only for
\* 1080 x 1920 itself.
ScaleFactorIsRelativeSizeAtReferenceRatio ==
    (call.fn = "getCanvasDimensions" /\ atReferenceRatio(call.probe))
        => /\ call.cm.scaleFactor = Rat(call.probe.width, 1080)
           /\ call.cm.scaleFactor = Rat(call.probe.height, 1920)
           /\ call.cm.scaleFactor = Num(1)
                <=> (call.probe.width = 1080 /\ call.probe.height = 1920)

ScaledAtReferenceRatio ==
    /\ call.fn = "getCanvasDimensions"
    /\ atReferenceRatio(call.probe)
    /\ call.probe.width = 2160
    /\ call.cm.scaleFactor = Num(2)

---------------------------------------------------------------------------
(* The word wrap applied to every short text *)

WrapAlphabet == {"a", "b", SP, NL}

WrapApply ==
    /\ call.fn = "none"
    /\ \E text \in StringsUpTo(WrapAlphabet, MaxTextLen) :
         \E maxCharsPerLine \in 1..MaxWrapWidth :
            call' = [fn |-> "wrapLines", text |-> text,
                     maxCharsPerLine |-> maxCharsPerLine,
                     lines |-> wrapLines(text, maxCharsPerLine)]
    /\ UNCHANGED componentVars

NextWrap == WrapApply

SpecWrap == ConstructedIdle /\ [][NextWrap]_vars

HasSpace(s) == \E i \in 1..Len(s) : IsSpace(s[i])

\* s[i..j] is a word of s: a maximal run of non-whitespace characters
IsWordAt(s, i, j) ==
    /\ 1 <= i /\ i <= j /\ j <= Len(s)
    /\ \A k \in i..j : ~IsSpace(s[k])
    /\ i = 1 \/ IsSpace(s[i - 1])
    /\ j = Len(s) \/ IsSpace(s[j + 1])

\* C4: every output line is at most maxCharsPerLine long unless it is a
\* single word of the input that is itself longer; such a word is not split
\* and is alone on its line.
WrapLinesWithinBound ==
    call.fn = "wrapLines" =>
        /\ \A n \in 1..Len(call.lines) :
             \/ Len(call.lines[n]) <= call.maxCharsPerLine
             \/ /\ ~HasSpace(call.lines[n])
                /\ \E i \in 1..Len(call.text) :
                     /\ IsWordAt(call.text, i, i + Len(call.lines[n]) - 1)
                     /\ SubSeq(call.text, i, i + Len(call.lines[n]) - 1) = call.lines[n]
        /\ \A i \in 1..Len(call.text) : \A j \in i..Len(call.text) :
             (IsWordAt(call.text, i, j) /\ j - i + 1 > call.maxCharsPerLine)
                => \E n \in 1..Len(call.lines) :
                      call.lines[n] = SubSeq(call.text, i, j)

OversizedWordOnItsOwnLine ==
    /\ call.fn = "wrapLines"
    /\ call.maxCharsPerLine = 2
    /\ call.text = <<"a", SP, "b", "b", "b">>
    /\ call.lines = <<<<"a">>, <<"b", "b", "b">>>>

\* the input with every whitespace run turned into one space and the
\* surrounding whitespace removed, character by character
RECURSIVE normalizeFrom(_, _, _, _)
normalizeFrom(s, i, out, gap) ==
    IF i > Len(s) THEN out
    ELSE IF IsSpace(s[i]) THEN normalizeFrom(s, i + 1, out, TRUE)
    ELSE normalizeFrom(s, i + 1,
                       (IF out # <<>> /\ gap THEN out \o <<SP>> ELSE out)
                           \o <<s[i]>>,
                       FALSE)

Normalized(s) == normalizeFrom(s, 1, <<>>, FALSE)

\* C5: joining the output lines with single spaces and stripping the
\* surrounding whitespace gives the whitespace-normalized input.
WrapRoundTrip ==
    call.fn = "wrapLines" =>
        trim(join(call.lines, <<SP>>)) = Normalized(call.text)

WrapOfPaddedTextOnTwoLines ==
    /\ call.fn = "wrapLines"
    /\ call.text = <<SP, "a", NL, SP, "b">>
    /\ call.lines = <<<<"a">>, <<"b">>>>

---------------------------------------------------------------------------
(* calculateAdaptiveFontSize applied to small arguments *)

FontApply ==
    /\ call.fn = "none"
    /\ \E n \in 0..MaxFontArg :
       \E maxWidth \in (-MaxFontArg)..(3 * MaxFontArg) :
       \E base \in 1..MaxFontArg :
       \E minFontSize \in 1..MaxFontArg :
          \E text \in {[i \in 1..n |-> "a"]} :
            call' = [fn |-> "calculateAdaptiveFontSize",
                     text |-> text, maxWidth |-> Num(maxWidth),
                     base |-> Num(base), minFontSize |-> Num(minFontSize),
                     \* line 59 divides by textLength
                     dividedByZero |-> shrinks(text, Num(maxWidth), Num(base)) /\ n = 0,
                     result |-> calculateAdaptiveFontSize(
                                   text, Num(maxWidth), Num(base), Num(minFontSize))]
    /\ UNCHANGED componentVars

NextFont == FontApply

SpecFont == ConstructedIdle /\ [][NextFont]_vars

\* C6 as claimed: for all inputs the returned size is >= minFontSize and
\* <= baseFontSize.
FontSizeBetweenMinAndBase ==
    call.fn = "calculateAdaptiveFontSize" =>
        /\ RLe(call.minFontSize, call.result)
        /\ RLe(call.result, call.base)

\* C6 as amended: for all inputs with minFontSize <= baseFontSize, as the
\* one call site passes (2.0 and 2.1 times the base font size), the returned
\* size is >= minFontSize and <= baseFontSize.
FontSizeBetweenMinAndBaseWhenOrdered ==
    (call.fn = "calculateAdaptiveFontSize" /\ RLe(call.minFontSize, call.base))
        => /\ IsFinite(call.result)
           /\ RLe(call.minFontSize, call.result)
           /\ RLe(call.result, call.base)

ShrunkBetweenMinAndBase ==
    /\ call.fn = "calculateAdaptiveFontSize"
    /\ RLt(call.minFontSize, call.result)
    /\ RLt(call.result, call.base)

\* C7: with empty text the function returns baseFontSize unchanged, for
\* every maxWidth (zero and negative too), and never divides by zero.
EmptyTextKeepsBaseSize ==
    (call.fn = "calculateAdaptiveFontSize" /\ Len(call.text) = 0)
        => /\ call.result = call.base
           /\ ~call.dividedByZero

---------------------------------------------------------------------------
(* The statistics and flowchart cases applied to every small content *)

\* the dimensions the plans are computed for: the default and 540 x 960
PlanProbes ==
    {p \in HandlerProbes :
        p.kind = "absent" \/ (p.width = 540 /\ p.height = 960)}

StatStrings == StringsUpTo({"a", NL}, MaxStatLen)

StatContents ==
    {[kind |-> "array", items |-> items] :
        items \in UNION {[1..n -> StatStrings] : n \in 0..MaxStats}}

\* the arguments: a content and the dimensions the probe gave
StatisticArguments ==
    /\ Constructed
    /\ \E content \in StatContents : \E probe \in PlanProbes :
         call = [fn |-> "arguments", content |-> content,
                 cm |-> getCanvasDimensions(probe)]

StatisticApply ==
    /\ call.fn = "arguments"
    /\ call' = [fn |-> "statisticPlan", content |-> call.content, cm |-> call.cm,
                plan |-> drawPlan("statistic", call.cm, call.content)]
    /\ UNCHANGED componentVars

NextStatistic == StatisticApply

SpecStatistic == StatisticArguments /\ [][NextStatistic]_vars

\* C8: the statistics body text is drawn with statsFontSize * 0.9 and
\* vertical offset 0.3 when the array has exactly 3 items, and with
\* statsFontSize and offset 0.4 for any other number of items, whatever the
\* statistic strings contain.
StatsStyleFollowsItemCount ==
    (call.fn = "statisticPlan" /\ call.plan # <<>>) =>
        LET L == layout(call.cm)
            body == call.plan[Len(call.plan)]
            three == Len(call.content.items) = 3
            size == IF three THEN RMul(L.statsFontSize, Rat(9, 10))
                    ELSE L.statsFontSize
            offset == IF three THEN Rat(3, 10) ELSE Rat(4, 10)
        IN  /\ body.part = "body"
            /\ body.fontSize = size
            /\ body.y = RAdd(L.statsArea.y,
                             RMul(RMul(L.statsArea.height, offset), Rat(91, 100)))

NodeChoices ==
    {NoNode, Node(<<>>, <<"d">>), Node(<<"n">>, <<>>), Node(<<"n">>, <<"d">>)}

FlowContents ==
    {[kind |-> "array", items |-> items] :
        items \in UNION {[1..n -> NodeChoices] : n \in 0..MaxNodes}}

FlowchartArguments ==
    /\ Constructed
    /\ \E content \in FlowContents : \E probe \in PlanProbes :
         call = [fn |-> "arguments", content |-> content,
                 cm |-> getCanvasDimensions(probe)]

FlowchartApply ==
    /\ call.fn = "arguments"
    /\ call' = [fn |-> "flowchartPlan", content |-> call.content, cm |-> call.cm,
                plan |-> drawPlan("flowchart", call.cm, call.content)]
    /\ UNCHANGED componentVars

NextFlowchart == FlowchartApply

SpecFlowchart == FlowchartArguments /\ [][NextFlowchart]_vars

callsOfNode(plan, i) == SelectSeq(plan, LAMBDA c : c.node = i)

hasTitle(content, i) ==
    /\ i + 1 <= Len(content.items)
    /\ content.items[i + 1].kind = "object"
    /\ content.items[i + 1].title # <<>>

\* C9: for each index i in 0..4, a node that is absent or has no title gets
\* no draw call and the action goes on; every node with a title is drawn, in
\* node region i, whichever other nodes were skipped; nodes at index 5 and
\* above are never drawn.
FlowchartSkipsOnlyUntitledNodes ==
    call.fn = "flowchartPlan" =>
        LET L == layout(call.cm)
            plan == call.plan
        IN  /\ \A k \in 1..Len(plan) : plan[k].node \in -1..4
            /\ \A i \in 0..4 :
                 IF hasTitle(call.content, i)
                 THEN LET cs == callsOfNode(plan, i)
                      IN  /\ Len(cs) >= 2
                          /\ cs[1].part = "nodeBox"
                          /\ cs[1].x = RAdd(L.flowchartArea.x, L.margin)
                          /\ cs[1].y = RSum3(L.flowchartArea.y, Times(3, L.margin),
                                             Times(i, RMul(L.nodeHeight, Rat(11, 10))))
                          /\ cs[1].height = L.nodeHeight
                          /\ cs[2].part = "nodeTitle"
                          /\ cs[2].text = call.content.items[i + 1].title
                 ELSE callsOfNode(plan, i) = <<>>

NodeTwoSkippedOthersDrawn ==
    /\ call.fn = "flowchartPlan"
    /\ Len(call.content.items) = 6
    /\ \A i \in {0, 1, 3, 4, 5} : hasTitle(call.content, i)
    /\ ~hasTitle(call.content, 2)
    /\ callsOfNode(call.plan, 2) = <<>>
    /\ callsOfNode(call.plan, 4) # <<>>

---------------------------------------------------------------------------
(* The order of the draw calls of one add-element action *)

\* the place of a call in the order background, header, underline, body,
\* and per node box, title, description
rank(c) ==
    CASE c.part = "background" -> 0
      [] c.part = "header" -> 1
      [] c.part = "underline" -> 2
      [] c.part = "body" -> 3
      [] c.part = "nodeBox" -> 10 * (c.node + 1)
      [] c.part = "nodeTitle" -> 10 * (c.node + 1) + 1
      [] c.part = "nodeDesc" -> 10 * (c.node + 1) + 2

partsOf(calls) == [k \in 1..Len(calls) |-> calls[k].part]

\* C10: within one add-element action the draw calls are issued in the
\* order background, header, underline, body (for the flowchart then, per
\* node, box, title, description); each is issued only after the one before
\* it has completed, and no two are in flight at once.
DrawCallsOneAtATimeInOrder ==
    /\ Cardinality(add.inflight) <= 1
    /\ add.inflight \subseteq {Len(add.calls)}
    /\ add.pc \in {"draw", "done"}
         => Len(add.calls) = add.completed + Cardinality(add.inflight)
    /\ \A k \in 1..(Len(add.calls) - 1) : rank(add.calls[k]) < rank(add.calls[k + 1])
    /\ (add.pc = "done" /\ add.type \in {"overview", "statistic"} /\ add.calls # <<>>)
         => partsOf(add.calls) = <<"background", "header", "underline", "body">>
    /\ (add.type = "flowchart" /\ Len(add.calls) >= 3)
         => partsOf(SubSeq(add.calls, 1, 3)) = <<"background", "header", "underline">>

NodeDescriptionInFlightAlone ==
    /\ add.pc = "draw"
    /\ add.type = "flowchart"
    /\ add.completed = 5
    /\ add.inflight = {6}
    /\ add.calls[6].part = "nodeDesc"

---------------------------------------------------------------------------
(* Failures of the two handlers *)

RejectedMessage == "Error adding element to canvas: rejected"

\* C11: when a draw call rejects, no further draw call of the action is
\* issued, the calls already completed stay as they are, infographicData is
\* unchanged, and the action sets one error message: after it the action
\* does nothing more, and error changes only through the generate handler.
RejectedDrawEndsTheAction ==
    [][ /\ (add.pc = "draw" /\ add'.pc = "failed")
            => /\ add'.calls = add.calls
               /\ add'.completed = add.completed
               /\ add'.inflight = {}
               /\ infographicData' = infographicData
               /\ error' = RejectedMessage
        /\ add.pc = "failed" => (add' = add \/ add'.pc = "probe")
        /\ (add.pc = "failed" /\ add' = add /\ error' # error) => gen' # gen
      ]_vars

RejectedAfterTwoDrawn ==
    /\ add.pc = "failed"
    /\ add.completed = 2
    /\ Len(add.calls) = 3
    /\ add.inflight = {}
    /\ error = RejectedMessage
    /\ infographicData = DataFull

generateFailed == gen.pc = "idle" /\ gen.outcome = "failed"

\* C12 as claimed: after a failed generation infographicData equals what it
\* was before the generate action was invoked.
FailedGenerateKeepsContent ==
    generateFailed => infographicData = gen.before

\* C12 as amended: after a failed generation infographicData is null,
\* whatever it was before: the handler discards it when it starts and a
\* failure does not put it back; the error is set and loading is over.
FailedGenerateLeavesNoContent ==
    generateFailed =>
        /\ infographicData = Null
        /\ error # ""
        /\ ~isLoading

FailedGenerateLostContent ==
    /\ generateFailed
    /\ gen.before = DataFull
    /\ infographicData = Null
    /\ error = "Failed to generate infographic data"

generateInFlight == gen.pc \in {"fetch", "json"}

\* C13: a generate click with non-blank input sets infographicData to null
\* and clears error before the request is issued; while the request is in
\* flight infographicData is null and no add-element action is offered.
NewRequestDiscardsContent ==
    [][ /\ (gen.pc = "idle" /\ gen'.pc = "fetch")
            => /\ trim(inputText) # <<>>
               /\ infographicData' = Null
               /\ error' = ""
        /\ generateInFlight'
            => /\ infographicData' = Null
               /\ \A type \in AddTypes : ~offered(type)'
      ]_vars

OldContentGoneInFlight ==
    /\ gen.pc = "fetch"
    /\ gen.before = DataFull
    /\ infographicData = Null
    /\ error = ""
    /\ \A type \in AddTypes : ~offered(type)

MissingFieldsMessage ==
    "Failed to parse infographic data: Missing required fields in response"

\* C14: in every reachable state infographicData is null or a parsed record
\* with a non-empty title and a non-empty overview; a response missing
\* either is a failure that stores nothing and sets an error.
StoredContentHasTitleAndOverview ==
    /\ infographicData # Null
        => /\ infographicData.title # <<>>
           /\ overviewText(infographicData.overview) # <<>>
    /\ error = MissingFieldsMessage
        => /\ generateFailed
           /\ infographicData = Null

MissingFieldStoredNothing ==
    /\ error = MissingFieldsMessage
    /\ generateFailed
    /\ infographicData = Null

hasField(data, field) ==
    CASE field = "statistics" -> data.statistics # Undefined
      [] field = "flowchart" -> data.flowchart # Undefined

\* C15: add statistics / add flowchart are offered exactly when
\* infographicData has the statistics / flowchart field, add title and add
\* overview exactly when it is not null; and an add-element action starts
\* only for a type on offer, with that field as its content.
AddActionsFollowTheFields ==
    [][ /\ (offered("title") <=> infographicData # Null)'
        /\ (offered("overview") <=> infographicData # Null)'
        /\ (offered("statistic")
               <=> (infographicData # Null /\ hasField(infographicData, "statistics")))'
        /\ (offered("flowchart")
               <=> (infographicData # Null /\ hasField(infographicData, "flowchart")))'
        /\ (add.pc # "probe" /\ add'.pc = "probe")
            => /\ infographicData # Null
               /\ add'.type \in {"statistic", "flowchart"}
                    => hasField(infographicData,
                                IF add'.type = "statistic" THEN "statistics"
                                ELSE "flowchart")
               /\ add'.content = contentOf(add'.type)
      ]_vars

OnlyTitleAndOverviewOffered ==
    /\ infographicData = DataTitleOverview
    /\ offered("title") /\ offered("overview")
    /\ ~offered("statistic") /\ ~offered("flowchart")

---------------------------------------------------------------------------
(* The canvas probe and its failures *)

probeFailed(probe) ==
    probe.kind \in {"absent", "throws"} \/ probe.width = 0 \/ probe.height = 0

\* C16: getCanvasDimensions never fails: for a probe that is absent, throws
\* or gives no width or height it returns {1080, 1920, scaleFactor 1};
\* otherwise the probe's width and height, with scaleFactor = height/1920
\* when width/height > 1080/1920 and width/1080 otherwise, and > 0.
GetCanvasDimensionsNeverFails ==
    call.fn = "getCanvasDimensions" =>
        LET p == call.probe
            cm == call.cm
        IN  IF probeFailed(p)
            THEN cm = [width |-> 1080, height |-> 1920, scaleFactor |-> Num(1)]
            ELSE /\ cm.width = p.width
                 /\ cm.height = p.height
                 /\ cm.scaleFactor =
                        (IF p.width * 1920 > 1080 * p.height
                         THEN Rat(p.height, 1920) ELSE Rat(p.width, 1080))
                 /\ RLt(Num(0), cm.scaleFactor)

ThrowingProbeGivesDefault ==
    /\ call.fn = "getCanvasDimensions"
    /\ call.probe.kind = "throws"
    /\ call.cm = [width |-> 1080, height |-> 1920, scaleFactor |-> Num(1)]

CanvasMessage == "Canvas not available"

\* C17 as claimed: a canvas that is unavailable (no sandbox proxy, or a
\* failing probe) is never surfaced: the error is not set because of it and
\* the action proceeds with the default dimensions.
CanvasUnavailableNeverSurfaced ==
    /\ error # CanvasMessage
    /\ (add.pc \in {"draw", "done", "failed"} /\ probeFailed(add.probe))
        => add.cm = DefaultDimensions

\* C17 as amended: a failing probe is never surfaced: the step in which the
\* probe settles leaves error as it is and, for a failed probe, goes on to
\* the draw calls planned for the default dimensions.  A missing sandbox
\* proxy is surfaced: no add-element action proceeds and the error
\* 'Canvas not available' is set, which nothing else sets.
ProbeFailureSilentMissingProxySurfaced ==
    [][ /\ (add.pc = "probe" /\ add'.pc # "probe")
            => /\ error' = error
               /\ probeFailed(add'.probe)
                    => /\ add'.cm = DefaultDimensions
                       /\ add'.plan = drawPlan(add'.type, DefaultDimensions, add'.content)
                       /\ add'.calls = SubSeq(add'.plan, 1,
                                               IF add'.plan = <<>> THEN 0 ELSE 1)
        /\ ~env.sandboxProxy => add' = AddIdle
        /\ (error' = CanvasMessage /\ error # CanvasMessage)
            => /\ ~env.sandboxProxy
               /\ infographicData # Null
      ]_vars

FailedProbeDrawsWithDefault ==
    /\ add.pc = "draw"
    /\ add.probe.kind = "throws"
    /\ add.cm = DefaultDimensions
    /\ add.completed = 1
    /\ error = ""

\* C18: one invocation of the generate action issues at most one request,
\* and none without the credential; an add-element action issues each call
\* of its plan at most once, in order; after a failure no request and no
\* draw call is issued until the user invokes an action again.
NoAutomaticRetries ==
    [][ /\ gen'.requests <= 1
        /\ ~env.apiKey => gen'.requests = 0
        /\ gen'.requests # gen.requests
            => (gen.pc = "idle" /\ ~isLoading /\ trim(inputText) # <<>>)
        /\ generateFailed => (gen' = gen \/ (gen'.pc = "fetch" /\ gen'.requests = 1)
                                         \/ (generateFailed' /\ gen'.requests = 0))
        /\ add'.calls = SubSeq(add'.plan, 1, Len(add'.calls))
        /\ Len(add'.calls) > Len(add.calls) => add.pc \in {"probe", "draw"}
        /\ add.pc = "failed" => (add'.calls = add.calls \/ add'.pc = "probe")
      ]_vars

FailedAfterOneRequest ==
    /\ generateFailed
    /\ gen.requests = 1
    /\ error = "Failed to fetch"
    /\ ~isLoading

---------------------------------------------------------------------------
(* The text blocks of the overview, statistic and flowchart cases, for     *)
(* texts of whole words                                                    *)

\* n words of len letters each, separated by single spaces
RECURSIVE repeated(_, _)
repeated(n, len) ==
    IF n = 1 THEN [i \in 1..len |-> "a"]
    ELSE [i \in 1..len |-> "a"] \o <<SP>> \o repeated(n - 1, len)

WordTexts == {repeated(n, len) : n \in 1..MaxWords, len \in 1..MaxWordLen}

TextBlockTypes == {"overview", "statistic", "flowchart"}

\* the content of each type made of one text: the overview string, one
\* statistic, one node with the text as its title and its description
textContent(type, text) ==
    CASE type = "overview" -> [kind |-> "string", text |-> text]
      [] type = "statistic" -> [kind |-> "array", items |-> <<text>>]
      [] type = "flowchart" -> [kind |-> "array", items |-> <<Node(text, text)>>]

TextBlockArguments ==
    /\ Constructed
    /\ \E type \in TextBlockTypes : \E text \in WordTexts : \E probe \in PlanProbes :
         call = [fn |-> "arguments", type |-> type, text |-> text,
                 content |-> textContent(type, text),
                 cm |-> getCanvasDimensions(probe)]

TextBlockApply ==
    /\ call.fn = "arguments"
    /\ call' = [fn |-> "textBlockPlan", type |-> call.type, text |-> call.text,
                content |-> call.content, cm |-> call.cm,
                plan |-> drawPlan(call.type, call.cm, call.content)]
    /\ UNCHANGED componentVars

NextTextBlock == TextBlockApply

SpecTextBlock == TextBlockArguments /\ [][NextTextBlock]_vars

\* the lines of a drawn text
linesOf(text) == splitOn(text, <<NL>>)

\* the region a text call belongs to
regionOf(L, type, c) ==
    CASE c.part = "nodeDesc" -> nodeRect(L, c.node)
      [] c.part = "nodeTitle" -> nodeRect(L, c.node)
      [] type = "overview" -> L.overviewArea
      [] type = "statistic" -> L.statsArea

\* C19: with characters 0.6 x fontSize wide, each line of the overview,
\* statistics and node-description text is no wider than its region, and
\* start y plus number of lines times lineHeight does not pass the bottom
\* of the region (overview, statistics, node rectangle), for all texts.
TextBlocksStayInside ==
    call.fn = "textBlockPlan" =>
        LET L == layout(call.cm)
        IN  \A k \in 1..Len(call.plan) :
              call.plan[k].part \in {"body", "nodeDesc"} =>
                LET c == call.plan[k]
                    region == regionOf(L, call.type, c)
                    lines == linesOf(c.text)
                    charWidth == RMul(c.fontSize, Rat(3, 5))
                IN  /\ \A n \in 1..Len(lines) :
                         RLe(Times(Len(lines[n]), charWidth), region.width)
                    /\ RLe(RAdd(c.y, Times(Len(lines), c.lineHeight)),
                           bottom(region))

\* the characters of the title's font that fit the width of the title call
nodeTitleMaxChars(c) == RFloor(RDiv(c.width, RMul(c.fontSize, Rat(3, 5))))

\* C20: a node title longer than the per-line character budget is passed
\* to the draw call wrapped by the greedy word wrap, as the description is.
LongNodeTitleWrapped ==
    (call.fn = "textBlockPlan" /\ call.type = "flowchart") =>
        \A k \in 1..Len(call.plan) :
            LET c == call.plan[k]
            IN  (c.part = "nodeTitle" /\ Len(call.text) > nodeTitleMaxChars(c))
                    => c.text = wrapText(call.text, nodeTitleMaxChars(c))

---------------------------------------------------------------------------
(* The canvas probe of each add-element action *)

\* C21: each add-element action queries the probe once, before any of its
\* draw calls, and computes its dimensions and draw plan from that result
\* alone: whatever the handler before it computed, the calls are those of
\* the size the probe gave this time.
ProbedOncePerAction ==
    [][ /\ add'.calls # <<>> => add'.probe # NoProbe
        /\ add'.probe # add.probe
            => \/ (add.pc = "probe" /\ add'.pc # "probe" /\ add.probe = NoProbe)
               \/ (add'.pc = "probe" /\ add'.probe = NoProbe)
        /\ (add.pc = "probe" /\ add'.pc # "probe")
            => /\ add'.cm = getCanvasDimensions(add'.probe)
               /\ add'.plan = drawPlan(add'.type, add'.cm, add'.content)
        /\ add.pc = "draw"
            => (add'.pc = "probe" \/ (add'.cm = add.cm /\ add'.plan = add.plan))
        /\ add'.calls = SubSeq(add'.plan, 1, Len(add'.calls))
      ]_vars

SecondActionUsesNewSize ==
    /\ add.pc = "draw"
    /\ add.type = "overview"
    /\ add.previous.width = 540 /\ add.previous.height = 960
    /\ add.probe = [kind |-> "value", width |-> 1080, height |-> 1920]
    /\ add.cm = [width |-> 1080, height |-> 1920, scaleFactor |-> Num(1)]
    /\ add.calls[1].width = Num(432)

---------------------------------------------------------------------------
(* The loading flag *)

\* C22: isLoading is true exactly while a generation request is in flight;
\* it is set when a generate action with non-blank input starts and on
\* every outcome it is eventually reset to false; with blank input the
\* generate action changes nothing: a handler starts, and loading, error
\* and content change through the generate handler, only for non-blank
\* input.
LoadingExactlyWhileInFlight ==
    /\ [](isLoading <=> generateInFlight)
    /\ [][ /\ (gen.pc = "idle" /\ gen' # gen) => trim(inputText) # <<>>
           /\ (gen.pc = "idle" /\ gen'.pc = "fetch") => isLoading'
           /\ (generateInFlight /\ gen'.pc = "idle")
               => (~isLoading' /\ gen'.outcome \in {"failed", "stored"})
         ]_vars
    /\ (isLoading ~> ~isLoading)

LoadingResetAfterParseFailure ==
    /\ generateFailed
    /\ ~isLoading
    /\ gen.requests = 1
    /\ error = "Failed to parse infographic data: Unexpected token"

=============================================================================
